---- MODULE Spec2Model ----
(***************************************************************************)
(* The Ralph Loop task dispatcher (agent/dispatcher.py) and the web        *)
(* control surface (agent/web_manager.py), sharing one tasks.json          *)
(* document.  Every load_tasks() and every save_tasks() is its own step,   *)
(* so a request's save can land after other writers changed the document.  *)
(*                                                                         *)
(* Text values are sequences of symbols: a fixed message is one symbol,    *)
(* concatenation is \o, and startswith is the prefix test on sequences.    *)
(* The created_at field is not modelled (only daily_digest.py reads it).   *)
(***************************************************************************)
EXTENDS Integers, Sequences, FiniteSets, TLC

\* ------------------------------------------------------------------ bounds
MaxId       == 3   \* add_task is not taken once next_id would exceed this
MaxOps      == 2   \* control-surface requests issued in one behaviour
MaxInflight == 1   \* requests between their load and save, in Spec
MaxGateInflight == 2   \* requests between their load and save, in SpecApproval
MaxDay      == 2   \* calendar days the clock runs through
MaxNotes    == 2   \* symbols a summary may hold before cancel is not taken
MaxGateOps  == 3   \* requests issued in one behaviour of SpecApproval
MaxDeleteOps == 3  \* requests issued in one behaviour of SpecDelete
MaxFileOps  == 2   \* requests issued in one behaviour of SpecFile
MaxLen      == 3   \* tasks in a list handed to pick_next_task in SpecPure
MaxDocLen   == 2   \* tasks in a document handed to a route handler in SpecPure

\* --------------------------------------------------------------- constants
DAILY_LIMIT == 1          \* DAILY_TASK_LIMIT, as configured in scenario 4
SUMMARY_TAIL == 2000      \* exec_output[-2000:]
NoParent == 0             \* "parent": None

None == <<"None">>        \* Python None in a text field (plan, summary, completed_at)
Absent == "<absent>"      \* a key the task dict does not hold
NoTask == [id |-> 0]      \* the dispatcher holds no task
Idle == [op |-> "idle"]   \* a request slot with no request in flight

Days == <<"2026-01-01", "2026-01-02", "2026-01-03", "2026-01-04">>

PRIORITY_ORDER == [high |-> 0, medium |-> 1, low |-> 2]

Statuses == {"pending", "in_progress", "plan_review", "approved", "rejected",
             "push_review", "pushed", "decomposed", "done", "failed"}

MSG_PLAN_TIMEOUT     == <<"Plan step timed out">>
\* a faulty variant: the deadline write carries the text of the rejection write
MSG_APPROVAL_TIMEOUT_Generic == <<"Plan rejected or timed out">>
MSG_APPROVAL_TIMEOUT == <<"Plan approval timed out">>
MSG_REJECTED         == <<"Plan rejected or timed out">>
MSG_EXEC_TIMEOUT     == <<"Execution timed out">>
NOTE_CANCEL          == <<"\nCancelled by user via Web UI.">>
NOTE_PUSH_SKIPPED    == <<"\nPush skipped by user (local commit only).">>

VARIABLES
    store,   \* the "tasks" list of tasks.json
    today,   \* index into Days of the current calendar day
    pc,      \* the dispatcher's position in main()
    dtask,   \* main(): task, the dict picked from the list loaded at the top
    dupd,    \* update_task(): its keyword arguments and where main() continues
    ddata,   \* update_task(): data, between load_tasks() and save_tasks()
    dout,    \* main(): the result of the execute-mode run_cc
    reqs,    \* control-surface requests between load_tasks() and save_tasks()
    nops,    \* control-surface requests issued so far
    hist,    \* history: what the loop and the control surface did
    pin,     \* input of the pure-function specification
    pout,    \* output of the pure-function specification
    file     \* tasks.json on disk: "json" (the text of store), "malformed" or "missing"

vars == <<store, today, pc, dtask, dupd, ddata, dout, reqs, nops, hist, pin, pout, file>>
dvars == <<pc, dtask, dupd, ddata, dout>>
\* what the loop and the requests of Spec leave alone: their saves are one step each
pvars == <<pin, pout, file>>

\* --------------------------------------------------------------- tasks.json
\* load_tasks 28-31: {"tasks": []} when the file does not exist, else json.loads of its
\* text, which raises JSONDecodeError on text that is not JSON; tasks: the list the
\* text encodes when it is JSON
load_tasks(state, tasks) ==
    CASE state = "missing" -> [raised |-> FALSE, tasks |-> <<>>]
      [] state = "json"    -> [raised |-> FALSE, tasks |-> tasks]
      [] OTHER             -> [raised |-> TRUE, tasks |-> <<>>]

\* ------------------------------------------------------------ text helpers
StartsWith(s, p) == Len(p) <= Len(s) /\ SubSeq(s, 1, Len(p)) = p

\* x or ""
OrEmpty(x) == IF x = None THEN <<>> ELSE x

RECURSIVE LStrip(_)
LStrip(s) == IF s # <<>> /\ Head(s) = " " THEN LStrip(Tail(s)) ELSE s

RECURSIVE RStrip(_)
RStrip(s) == IF s # <<>> /\ s[Len(s)] = " " THEN RStrip(SubSeq(s, 1, Len(s) - 1)) ELSE s

Strip(s) == RStrip(LStrip(s))

TodayStr == <<Days[today]>>                 \* date.today().isoformat()
NowStr == <<Days[today], "T00:00:00">>      \* datetime.utcnow().isoformat()

\* the day a timestamp written by NowStr names
DayOf(ts) == CHOOSE d \in 1..Len(Days) : Days[d] = Head(ts)

\* -------------------------------------------------------------- task lists
\* index of the first task the loop "for t in tasks: if match: ...; break" changes
\* (of the indices that match; 0 when none does)
First(S) == IF S = {} THEN 0 ELSE CHOOSE i \in S : \A j \in S : i <= j

\* the indices of the tasks with the id and a status among sts
Matching(tasks, task_id, sts) ==
    {i \in 1..Len(tasks) : tasks[i].id = task_id /\ tasks[i].status \in sts}

Find(tasks, task_id) == First({i \in 1..Len(tasks) : tasks[i].id = task_id})

\* the status of the first task with the id
StatusOf(tasks, task_id) ==
    IF Find(tasks, task_id) = 0 THEN "missing" ELSE tasks[Find(tasks, task_id)].status

\* t.update(kwargs)
Merge(t, kwargs) == [k \in DOMAIN t |-> IF k \in DOMAIN kwargs THEN kwargs[k] ELSE t[k]]

\* a faulty variant: the fields are merged into every task of the list
update_task_EveryTask(tasks, task_id, kwargs) ==
    [i \in 1..Len(tasks) |-> Merge(tasks[i], kwargs)]

\* a faulty variant: the fields are merged into the last task with the id
update_task_LastMatch(tasks, task_id, kwargs) ==
    LET S == {j \in 1..Len(tasks) : tasks[j].id = task_id}
        i == IF S = {} THEN 0 ELSE CHOOSE j \in S : \A k \in S : k <= j
    IN  IF i = 0 THEN tasks ELSE [tasks EXCEPT ![i] = Merge(tasks[i], kwargs)]

\* update_task 38-44, from the list it loaded to the list it saves
update_task(tasks, task_id, kwargs) ==
    LET i == Find(tasks, task_id)
    IN  IF i = 0 THEN tasks ELSE [tasks EXCEPT ![i] = Merge(tasks[i], kwargs)]

\* a faulty variant: a priority that is no key of PRIORITY_ORDER ranks last
PriorityRank_UnknownLast(t) ==
    LET p == IF t.priority = Absent THEN "medium" ELSE t.priority
    IN  IF p \in DOMAIN PRIORITY_ORDER THEN PRIORITY_ORDER[p] ELSE 2

\* PRIORITY_ORDER.get(t.get("priority", "medium"), 1)
PriorityRank(t) ==
    LET p == IF t.priority = Absent THEN "medium" ELSE t.priority
    IN  IF p \in DOMAIN PRIORITY_ORDER THEN PRIORITY_ORDER[p] ELSE 1

KeyLess(a, b) ==
    \/ PriorityRank(a) < PriorityRank(b)
    \/ PriorityRank(a) = PriorityRank(b) /\ a.id < b.id

\* sorted(pending, key=...)[0]: the first of the pending tasks, in list order, that no
\* other pending task precedes under the key (sorted is stable)
pick_next_task(tasks) ==
    LET pending == SelectSeq(tasks, LAMBDA t : t.status = "pending")
        i == First({k \in 1..Len(pending) :
                       \A j \in 1..Len(pending) : ~KeyLess(pending[j], pending[k])})
    IN  IF pending = <<>> THEN NoTask ELSE pending[i]

\* t.get(k)
Get(t, k) == IF k \in DOMAIN t THEN t[k] ELSE None

\* a faulty variant: every done task counts, whatever its day
tasks_completed_today_AnyDay(tasks) ==
    Cardinality({i \in 1..Len(tasks) : tasks[i].status = "done"})

\* tasks_completed_today 54-59
tasks_completed_today(tasks) ==
    Cardinality({i \in 1..Len(tasks) :
        tasks[i].status = "done" /\ StartsWith(OrEmpty(Get(tasks[i], "completed_at")), TodayStr)})

\* a faulty variant: the cap blocks only once it is exceeded
DailyLimitReached_Exceeded(completed_today) == completed_today > DAILY_LIMIT

DailyLimitReached(completed_today) == completed_today >= DAILY_LIMIT

\* a faulty variant: any pending task counts as a subtask
detect_decomposition_AnyPending(tasks, task_id) ==
    \E i \in 1..Len(tasks) : tasks[i].status = "pending"

\* detect_decomposition 145-148: a pending task whose parent is task_id
detect_decomposition(tasks, task_id) ==
    \E i \in 1..Len(tasks) : tasks[i].parent = task_id /\ tasks[i].status = "pending"

SummaryOf(exec_output) ==
    IF Len(exec_output) > SUMMARY_TAIL
    THEN SubSeq(exec_output, Len(exec_output) - SUMMARY_TAIL + 1, Len(exec_output))
    ELSE exec_output

\* ------------------------------------------------- control-surface handlers
RECURSIVE MaxIdOf(_)
MaxIdOf(tasks) ==
    IF tasks = <<>> THEN 0
    ELSE LET m == MaxIdOf(Tail(tasks)) IN IF Head(tasks).id > m THEN Head(tasks).id ELSE m

\* a faulty variant: the next id is the number of tasks plus one
next_id_Count(tasks) == Len(tasks) + 1

\* next_id 50-51: max(ids, default=0) + 1
next_id(tasks) == MaxIdOf(tasks) + 1

NewTask(id, prompt, priority, parent) ==
    [id |-> id, status |-> "pending", prompt |-> prompt, priority |-> priority,
     parent |-> parent, plan |-> None, completed_at |-> None, summary |-> None]

add_task(tasks, arg) ==
    Append(tasks, NewTask(next_id(tasks), Strip(arg.prompt), arg.priority, NoParent))

\* a faulty variant: edit without the guard on the status
edit_task_AnyStatus(tasks, task_id, arg) ==
    LET i == Find(tasks, task_id)
        prompt == Strip(arg.prompt)
    IN  IF i = 0 THEN tasks
        ELSE [tasks EXCEPT ![i] = Merge(tasks[i],
                 IF prompt # <<>> THEN [prompt |-> prompt, priority |-> arg.priority]
                 ELSE [priority |-> arg.priority])]

\* a faulty variant: edit stores the prompt of the form even when it is blank
edit_task_BlankPrompt(tasks, task_id, arg) ==
    LET i == First(Matching(tasks, task_id, {"pending", "failed", "rejected"}))
    IN  IF i = 0 THEN tasks
        ELSE [tasks EXCEPT ![i] = Merge(tasks[i],
                 [prompt |-> Strip(arg.prompt), priority |-> arg.priority])]

edit_task(tasks, task_id, arg) ==
    LET i == First(Matching(tasks, task_id, {"pending", "failed", "rejected"}))
        prompt == Strip(arg.prompt)
    IN  IF i = 0 THEN tasks
        ELSE [tasks EXCEPT ![i] = Merge(tasks[i],
                 IF prompt # <<>> THEN [prompt |-> prompt, priority |-> arg.priority]
                 ELSE [priority |-> arg.priority])]

\* a faulty variant: delete without the guard on in_progress
delete_task_NoGuard(tasks, task_id) == SelectSeq(tasks, LAMBDA t : t.id # task_id)

delete_task(tasks, task_id) ==
    SelectSeq(tasks, LAMBDA t : t.id # task_id \/ t.status = "in_progress")

\* a faulty variant: approve without the plan_review guard
approve_task_NoGuard(tasks, task_id) ==
    LET i == Find(tasks, task_id)
    IN  IF i = 0 THEN tasks ELSE [tasks EXCEPT ![i].status = "approved"]

approve_task(tasks, task_id) ==
    LET i == First(Matching(tasks, task_id, {"plan_review"}))
    IN  IF i = 0 THEN tasks ELSE [tasks EXCEPT ![i].status = "approved"]

reject_task(tasks, task_id, arg) ==
    LET i == First(Matching(tasks, task_id, {"plan_review"}))
    IN  IF i = 0 THEN tasks
        ELSE [tasks EXCEPT ![i] = Merge(tasks[i],
                 IF arg.feedback # <<>>
                 THEN [status |-> "rejected", summary |-> <<"Rejected: ">> \o arg.feedback]
                 ELSE [status |-> "rejected"])]

cancel_task(tasks, task_id) ==
    LET i == First(Matching(tasks, task_id, {"in_progress", "plan_review", "approved"}))
    IN  IF i = 0 THEN tasks
        ELSE [tasks EXCEPT ![i] = Merge(tasks[i],
                 [status |-> "failed", summary |-> OrEmpty(tasks[i].summary) \o NOTE_CANCEL])]

\* a faulty variant: retry that keeps the old plan
retry_task_KeepPlan(tasks, task_id) ==
    LET i == First(Matching(tasks, task_id, {"failed", "rejected", "done"}))
    IN  IF i = 0 THEN tasks
        ELSE [tasks EXCEPT ![i] = Merge(tasks[i],
                 [status |-> "pending", completed_at |-> None, summary |-> None])]

retry_task(tasks, task_id) ==
    LET i == First(Matching(tasks, task_id, {"failed", "rejected", "done"}))
    IN  IF i = 0 THEN tasks
        ELSE [tasks EXCEPT ![i] = Merge(tasks[i],
                 [status |-> "pending", completed_at |-> None, summary |-> None, plan |-> None])]

approve_push(tasks, task_id) ==
    LET i == First(Matching(tasks, task_id, {"push_review"}))
    IN  IF i = 0 THEN tasks ELSE [tasks EXCEPT ![i].status = "pushed"]

reject_push(tasks, task_id) ==
    LET i == First(Matching(tasks, task_id, {"push_review"}))
    IN  IF i = 0 THEN tasks
        ELSE [tasks EXCEPT ![i] = Merge(tasks[i],
                 [status |-> "done", summary |-> OrEmpty(tasks[i].summary) \o NOTE_PUSH_SKIPPED])]

\* the document a request's handler saves, given the document it loaded
Handler(op, data, task_id, arg) ==
    CASE op = "add"          -> add_task(data, arg)
      [] op = "edit"         -> edit_task(data, task_id, arg)
      [] op = "delete"       -> delete_task(data, task_id)
      [] op = "approve"      -> approve_task(data, task_id)
      [] op = "reject"       -> reject_task(data, task_id, arg)
      [] op = "cancel"       -> cancel_task(data, task_id)
      [] op = "retry"        -> retry_task(data, task_id)
      [] op = "approve_push" -> approve_push(data, task_id)
      [] op = "reject_push"  -> reject_push(data, task_id)

\* ---------------------------------------------------------------- inputs
InitPriorities == {"high", "low"}
FormPriorities == {"high"}
Prompts == {<<" ">>, <<" ", "b">>}
Feedbacks == {<<>>, <<"fb">>}
PlanOutputs == {<<"plan">>}
ExecOutputs == {<<"out">>}
ExitCodes == {0, 1}
Ops == {"add", "edit", "delete", "approve", "reject", "cancel", "retry",
        "approve_push", "reject_push"}

DefaultArg == [prompt |-> <<>>, priority |-> "medium", feedback |-> <<>>]

ArgsOf(op) ==
    CASE op \in {"add", "edit"} ->
             {[DefaultArg EXCEPT !.prompt = p, !.priority = q] :
                 p \in Prompts, q \in FormPriorities}
      [] op = "reject" -> {[DefaultArg EXCEPT !.feedback = f] : f \in Feedbacks}
      [] OTHER -> {DefaultArg}

\* the <int:task_id> of the route; POST /tasks has none
IdsOf(op, ids) == IF op = "add" THEN {0} ELSE ids

NoUpd == [ret |-> "none"]
NoOut == [rc |-> 0, out |-> <<>>]

\* ------------------------------------------------------------------- Init
\* request slots: as many as the specification with the most requests in flight uses
Slots == IF MaxInflight > MaxGateInflight THEN MaxInflight ELSE MaxGateInflight

\* used: the ids given to tasks so far, those of the two tasks of InitMain at first;
\* log: the task ids of the entries of PROGRESS.md, each written after a git commit
InitHist ==
    [last |-> "none", appr |-> FALSE, done |-> [d \in 1..MaxDay |-> 0], used |-> {1, 2},
     log |-> <<>>]

InitMain ==
    /\ \E p2 \in InitPriorities :
           store = <<NewTask(1, <<"a">>, "medium", NoParent), NewTask(2, <<"a">>, p2, NoParent)>>
    /\ today = 1
    /\ pc = "top"
    /\ dtask = NoTask
    /\ dupd = NoUpd
    /\ ddata = <<>>
    /\ dout = NoOut
    /\ reqs = [s \in 1..Slots |-> Idle]
    /\ nops = 0
    /\ hist = InitHist

NoInput == [kind |-> "none", tasks |-> <<>>]
NoResult == [fn |-> "none", id |-> 0, arg |-> DefaultArg, res |-> <<>>]

Init == InitMain /\ pin = NoInput /\ pout = NoResult /\ file = "json"

\* -------------------------------------------------------- the Dispatch Loop
\* main() calls update_task(task_id, **kw) and continues at ret
Call(kw, ret) ==
    /\ pc' = "update_load"
    /\ dupd' = [kw |-> kw, ret |-> ret]

\* dispatcher.py 159-177: load, daily cap, pick, up to the call of update_task
DispTop ==
    /\ pc = "top"
    /\ LET data == store
           completed_today == tasks_completed_today(data)
           task == pick_next_task(data)
       IN  IF DailyLimitReached(completed_today)
           THEN /\ hist' = [hist EXCEPT !.last = "backoff"]
                /\ UNCHANGED <<pc, dtask, dupd>>
           ELSE IF task = NoTask
           THEN /\ hist' = [hist EXCEPT !.last = "idle"]
                /\ dtask' = NoTask
                /\ UNCHANGED <<pc, dupd>>
           ELSE /\ dtask' = [id |-> task.id, prompt |-> task.prompt]
                /\ Call([status |-> "in_progress"], "plan_cc")
                /\ hist' = [hist EXCEPT !.last = "claimed"]
    /\ UNCHANGED <<store, today, ddata, dout, reqs, nops, pvars>>

\* update_task: data = load_tasks()
UpdateLoad ==
    /\ pc = "update_load"
    /\ ddata' = store
    /\ pc' = "update_save"
    /\ UNCHANGED <<store, today, dtask, dupd, dout, reqs, nops, hist, pvars>>

\* update_task: what the loop over data["tasks"] and save_tasks(data) leave behind
UpdateEffect ==
    /\ store' = update_task(ddata, dtask.id, dupd.kw)
    /\ pc' = dupd.ret
    /\ ddata' = <<>>
    /\ dupd' = NoUpd
    /\ UNCHANGED dtask
    /\ hist' = [hist EXCEPT
           !.appr = IF dupd.ret = "gate0" THEN FALSE ELSE @,
           !.done = IF dupd.kw.status = "done" /\ Find(ddata, dtask.id) # 0
                    THEN [@ EXCEPT ![DayOf(dupd.kw.completed_at)] = @ + 1] ELSE @]
    /\ UNCHANGED <<today, dout, reqs, nops>>

\* update_task: the loop over data["tasks"] and save_tasks(data)
UpdateSave == pc = "update_save" /\ UpdateEffect /\ UNCHANGED pvars

\* a faulty variant: after a timeout of the plan phase the cycle goes on to the gate
RunPlan_TimeoutGoesOn ==
    /\ pc = "plan_cc"
    /\ \/ /\ Call([status |-> "failed", summary |-> MSG_PLAN_TIMEOUT], "gate0")
          /\ hist' = [hist EXCEPT !.last = "plan_timeout"]
       \/ \E plan_output \in PlanOutputs :
              /\ Call([status |-> "plan_review", plan |-> plan_output], "gate0")
              /\ hist' = [hist EXCEPT !.last = "planned"]
    /\ UNCHANGED <<store, today, dtask, ddata, dout, reqs, nops, pvars>>

\* dispatcher.py 178-184: run_cc(..., mode="plan") returns or times out
RunPlan ==
    /\ pc = "plan_cc"
    /\ \/ /\ Call([status |-> "failed", summary |-> MSG_PLAN_TIMEOUT], "top")
          /\ hist' = [hist EXCEPT !.last = "plan_timeout"]
       \/ \E plan_output \in PlanOutputs :
              /\ Call([status |-> "plan_review", plan |-> plan_output], "gate0")
              /\ hist' = [hist EXCEPT !.last = "planned"]
    /\ UNCHANGED <<store, today, dtask, ddata, dout, reqs, nops, pvars>>

\* a faulty variant: the poll takes every decision for a rejection
GateVerdict_AlwaysRejected(data, task_id) ==
    LET i == Find(data, task_id)
    IN  IF i = 0 THEN "missing"
        ELSE IF data[i].status \in {"approved", "rejected"} THEN "rejected"
        ELSE "wait"

\* a faulty variant: the poll returns False for a task it finds failed
GateVerdict_FailedReturns(data, task_id) ==
    LET i == Find(data, task_id)
    IN  IF i = 0 THEN "missing"
        ELSE IF data[i].status = "approved" THEN "approved"
        ELSE IF data[i].status \in {"rejected", "failed"} THEN "rejected"
        ELSE "wait"

\* wait_for_approval 105-113: what one poll makes of the document it loaded
GateVerdict(data, task_id) ==
    LET i == Find(data, task_id)
    IN  IF i = 0 THEN "missing"
        ELSE IF data[i].status = "approved" THEN "approved"
        ELSE IF data[i].status = "rejected" THEN "rejected"
        ELSE "wait"

\* wait_for_approval: one pass of the while loop before the deadline
GatePoll ==
    /\ pc \in {"gate0", "gate"}
    /\ LET verdict == GateVerdict(store, dtask.id)
       IN  IF verdict = "missing"
           THEN /\ Call([status |-> "failed", summary |-> MSG_REJECTED], "top")
                /\ hist' = [hist EXCEPT !.last = "missing"]
           ELSE IF verdict = "approved"
           THEN /\ Call([status |-> "in_progress"], "exec_cc")
                /\ hist' = [hist EXCEPT !.last =
                       IF pc = "gate0" THEN "approved_first" ELSE "approved"]
           ELSE IF verdict = "rejected"
           THEN /\ Call([status |-> "failed", summary |-> MSG_REJECTED], "top")
                /\ hist' = [hist EXCEPT !.last = "rejected"]
           ELSE /\ pc' = "gate"
                /\ hist' = [hist EXCEPT !.last =
                       IF StatusOf(store, dtask.id) = "failed" THEN "polled_failed" ELSE @]
                /\ UNCHANGED dupd
    /\ UNCHANGED <<store, today, dtask, ddata, dout, reqs, nops, pvars>>

\* wait_for_approval 116-117: the deadline has passed (PLAN_TIMEOUT_HOURS >= 1, so
\* at least one poll came first)
GateTimeout ==
    /\ pc = "gate"
    /\ Call([status |-> "failed", summary |-> MSG_APPROVAL_TIMEOUT], "not_approved")
    /\ hist' = [hist EXCEPT !.last = "approval_timeout"]
    /\ UNCHANGED <<store, today, dtask, ddata, dout, reqs, nops, pvars>>

\* a faulty variant: after the gate returned False the cycle goes on to execute
NotApproved_GoesOn ==
    /\ pc = "not_approved"
    /\ Call([status |-> "in_progress"], "exec_cc")
    /\ UNCHANGED <<store, today, dtask, ddata, dout, reqs, nops, hist, pvars>>

\* dispatcher.py 118, 187-188: the gate returned False after its own write
NotApproved ==
    /\ pc = "not_approved"
    /\ Call([status |-> "failed", summary |-> MSG_REJECTED], "top")
    /\ UNCHANGED <<store, today, dtask, ddata, dout, reqs, nops, hist, pvars>>

\* dispatcher.py 193-197: run_cc(..., mode="execute") returns or times out
RunExec ==
    /\ pc = "exec_cc"
    /\ \/ /\ Call([status |-> "failed", summary |-> MSG_EXEC_TIMEOUT], "top")
          /\ hist' = [hist EXCEPT !.last = "exec_timeout"]
          /\ UNCHANGED dout
       \/ \E rc \in ExitCodes, exec_output \in ExecOutputs :
              /\ dout' = [rc |-> rc, out |-> exec_output]
              /\ pc' = "detect"
              /\ hist' = [hist EXCEPT !.last = "executed"]
              /\ UNCHANGED dupd
    /\ UNCHANGED <<store, today, dtask, ddata, reqs, nops, pvars>>

\* the tool, while it executes, writes a subtask of the running task into tasks.json
WriteSubtask ==
    /\ pc = "exec_cc"
    /\ next_id(store) <= MaxId
    /\ store' = Append(store, NewTask(next_id(store), <<"sub">>, "medium", dtask.id))
    /\ hist' = [hist EXCEPT !.used = @ \cup {next_id(store)}]
    /\ UNCHANGED <<today, dvars, reqs, nops, pvars>>

\* a faulty variant: the decomposed path commits too
Finalize_AlwaysCommits ==
    /\ pc = "detect"
    /\ IF detect_decomposition(store, dtask.id)
       THEN /\ Call([status |-> "decomposed"], "commit")
            /\ hist' = [hist EXCEPT !.last = "decomposed"]
       ELSE /\ Call([status |-> "done", completed_at |-> NowStr,
                     summary |-> SummaryOf(dout.out)], "commit")
            /\ hist' = [hist EXCEPT !.last = "done"]
    /\ UNCHANGED <<store, today, dtask, ddata, dout, reqs, nops, pvars>>

\* dispatcher.py 199-205: detect_decomposition, up to the call of update_task
Finalize ==
    /\ pc = "detect"
    /\ IF detect_decomposition(store, dtask.id)
       THEN /\ Call([status |-> "decomposed"], "top")
            /\ hist' = [hist EXCEPT !.last = "decomposed"]
       ELSE /\ Call([status |-> "done", completed_at |-> NowStr,
                     summary |-> SummaryOf(dout.out)], "commit")
            /\ hist' = [hist EXCEPT !.last = "done"]
    /\ UNCHANGED <<store, today, dtask, ddata, dout, reqs, nops, pvars>>

\* dispatcher.py 206-208: git_commit and append_progress
Commit ==
    /\ pc = "commit"
    /\ pc' = "top"
    /\ dout' = NoOut
    /\ hist' = [hist EXCEPT !.log = Append(@, dtask.id)]
    /\ UNCHANGED <<store, today, dtask, dupd, ddata, reqs, nops, pvars>>

\* ------------------------------------------------------ the control surface
\* a route handler runs load_tasks()
RequestLoad(s, op, task_id, arg) ==
    /\ reqs[s] = Idle
    /\ op = "add" => Strip(arg.prompt) # <<>> /\ next_id(store) <= MaxId
    /\ LET saved == Handler(op, store, task_id, arg)
       IN  \A i \in 1..Len(saved) : Len(saved[i].summary) <= MaxNotes
    /\ reqs' = [reqs EXCEPT ![s] = [op |-> op, id |-> task_id, arg |-> arg, data |-> store]]
    /\ nops' = nops + 1
    /\ UNCHANGED <<store, today, dvars, hist, pvars>>

\* what the handler's change of the list it loaded and save_tasks(data) leave behind
RequestEffect(s) ==
    /\ LET r == reqs[s] IN
       /\ store' = Handler(r.op, r.data, r.id, r.arg)
       /\ hist' = [hist EXCEPT !.appr =
              IF /\ r.op = "approve"
                 /\ r.id = dtask.id
                 /\ pc \in {"gate0", "gate"}
                 /\ Handler(r.op, r.data, r.id, r.arg) # r.data
              THEN TRUE ELSE @,
              !.used = IF r.op = "add" THEN @ \cup {next_id(r.data)} ELSE @]
    /\ reqs' = [reqs EXCEPT ![s] = Idle]
    /\ UNCHANGED <<today, dvars, nops>>

\* the handler changes the list it loaded and runs save_tasks(data)
RequestSave(s) == reqs[s] # Idle /\ RequestEffect(s) /\ UNCHANGED pvars

\* add_task 432-435: a blank prompt returns before load_tasks()
AddBlank(arg) ==
    /\ Strip(arg.prompt) = <<>>
    /\ nops' = nops + 1
    /\ UNCHANGED <<store, today, dvars, reqs, hist, pvars>>

\* midnight
DayTick ==
    /\ today < MaxDay
    /\ today' = today + 1
    /\ UNCHANGED <<store, dvars, reqs, nops, hist, pvars>>

Dispatcher ==
    \/ DispTop \/ UpdateLoad \/ UpdateSave \/ RunPlan \/ GatePoll \/ GateTimeout
    \/ NotApproved \/ RunExec \/ Finalize \/ Commit

\* the requests of the control surface: at most budget of them, each of a route in ops
Requests(ops, ids, budget, slots) ==
    /\ nops < budget
    /\ \E s \in 1..slots, op \in ops :
           \E task_id \in IdsOf(op, ids), arg \in ArgsOf(op) :
               RequestLoad(s, op, task_id, arg)

Saves == \E s \in DOMAIN reqs : RequestSave(s)

BlankAdds == nops < MaxOps /\ \E arg \in ArgsOf("add") : AddBlank(arg)

Next ==
    \/ Dispatcher \/ Requests(Ops, 1..MaxId, MaxOps, MaxInflight) \/ Saves \/ BlankAdds
    \/ WriteSubtask \/ DayTick

Spec == Init /\ [][Next]_vars

\* the loop with a control surface that only approves, rejects, cancels and retries
GateOps == {"approve", "retry"}
GateIds == {1, 2}

NextApproval == Dispatcher \/ Requests(GateOps, GateIds, MaxGateOps, MaxGateInflight) \/ Saves

SpecApproval == Init /\ [][NextApproval]_vars

\* the loop with a control surface that deletes, adds and approves, one request at a time
DeleteOps == {"delete", "add", "approve"}

NextDelete == Dispatcher \/ Requests(DeleteOps, GateIds, MaxDeleteOps, MaxInflight) \/ Saves

SpecDelete == Init /\ [][NextDelete]_vars

\* --------------------------------------- saves that take time (write_text)
\* save_tasks 34-35: write_text opens tasks.json for writing, which empties it, and
\* then writes the text; in between the file holds a prefix of the text. One save at
\* a time is followed here; two overlapping saves are left out.
FileOps == {"approve"}

\* the positions of the loop whose next statement is load_tasks()
FileLoads == {"top", "update_load", "gate0", "gate", "detect"}

\* the steps of the loop that start with load_tasks(), on a whole document
LoopLoads == file = "json" /\ (DispTop \/ UpdateLoad \/ GatePoll \/ Finalize)

\* load_tasks() of the loop raises: nothing in main() catches it
LoopLoadRaises ==
    /\ pc \in FileLoads
    /\ load_tasks(file, store).raised
    /\ pc' = "raised"
    /\ UNCHANGED <<store, today, dtask, dupd, ddata, dout, reqs, nops, hist, pvars>>

\* the steps of the loop that read nothing from tasks.json
LoopSteps == RunPlan \/ GateTimeout \/ NotApproved \/ RunExec \/ Commit

\* save_tasks of the loop: open(..., "w")
UpdateSaveOpen ==
    /\ pc = "update_save"
    /\ file = "json"
    /\ file' = "malformed"
    /\ pc' = "update_write"
    /\ UNCHANGED <<store, today, dtask, dupd, ddata, dout, reqs, nops, hist, pin, pout>>

\* save_tasks of the loop: the text is written
UpdateSaveWrite ==
    /\ pc = "update_write"
    /\ UpdateEffect
    /\ file' = "json"
    /\ UNCHANGED <<pin, pout>>

\* load_tasks() of a request raises: the request ends with an error
RequestLoadRaises ==
    /\ nops < MaxFileOps
    /\ load_tasks(file, store).raised
    /\ nops' = nops + 1
    /\ UNCHANGED <<store, today, dvars, reqs, hist, pvars>>

\* save_tasks of a request: open(..., "w")
RequestSaveOpen(s) ==
    /\ reqs[s] # Idle
    /\ "open" \notin DOMAIN reqs[s]
    /\ file = "json"
    /\ file' = "malformed"
    /\ reqs' = [reqs EXCEPT ![s] = [op |-> reqs[s].op, id |-> reqs[s].id,
                                    arg |-> reqs[s].arg, data |-> reqs[s].data,
                                    open |-> TRUE]]
    /\ UNCHANGED <<store, today, dvars, nops, hist, pin, pout>>

\* save_tasks of a request: the text is written
RequestSaveWrite(s) ==
    /\ reqs[s] # Idle
    /\ "open" \in DOMAIN reqs[s]
    /\ RequestEffect(s)
    /\ file' = "json"
    /\ UNCHANGED <<pin, pout>>

FileLoop == LoopLoads \/ LoopLoadRaises \/ LoopSteps \/ UpdateSaveOpen \/ UpdateSaveWrite

FileRequests ==
    \/ file = "json" /\ Requests(FileOps, GateIds, MaxFileOps, MaxInflight)
    \/ RequestLoadRaises
    \/ \E s \in DOMAIN reqs : RequestSaveOpen(s) \/ RequestSaveWrite(s)

NextFile == FileLoop \/ FileRequests

SpecFile == Init /\ [][NextFile]_vars

\* the loop's process keeps running (its sleeps and the deadline of the gate end), and
\* a write_text that has opened the file writes its text
SpecFileFair ==
    /\ SpecFile
    /\ WF_vars(FileLoop)
    /\ WF_vars(\E s \in DOMAIN reqs : RequestSaveWrite(s))

\* ------------------------------------------- the functions, applied alone
PurePriorities == {"high", "medium", "low", Absent, "urgent"}
PickStatuses == {"pending", "done"}
USED_AT == <<Days[1], "T00:00:00">>

\* a task as add_task creates it, then moved to a status; used: a cycle has filled
\* plan, summary and completed_at
PureTask(id, status, priority, used) ==
    [NewTask(id, <<"a">>, priority, NoParent) EXCEPT
        !.status = status,
        !.plan = IF used THEN <<"plan">> ELSE None,
        !.summary = IF used THEN <<"s">> ELSE None,
        !.completed_at = IF used THEN USED_AT ELSE None]

\* the lists of at most n of the tasks, no id twice, in every order
ListsOf(tasks, n) ==
    UNION {{l \in [1..k -> tasks] : \A i, j \in 1..k : l[i].id = l[j].id => i = j} : k \in 0..n}

PickInputs ==
    ListsOf({PureTask(id, st, pr, FALSE) :
                 id \in 1..MaxLen, st \in PickStatuses, pr \in PurePriorities}, MaxLen)

DocInputs ==
    ListsOf({PureTask(id, st, "medium", used) :
                 id \in 1..MaxDocLen, st \in Statuses, used \in BOOLEAN}, MaxDocLen)

\* a task without the key completed_at
NoCompletedAt(t) == [k \in DOMAIN t \ {"completed_at"} |-> t[k]]

\* done and failed tasks whose completed_at is of today, of the next day, None or absent
CountTasks ==
    LET base == {PureTask(1, st, "medium", FALSE) : st \in {"done", "failed"}}
    IN  {[t EXCEPT !.completed_at = c] :
             t \in base, c \in {None, <<Days[1], "T00:00:00">>, <<Days[2], "T00:00:00">>}}
        \cup {NoCompletedAt(t) : t \in base}

CountInputs == UNION {[1..k -> CountTasks] : k \in 0..MaxLen}

\* lists in which an id may stand twice
UpdateInputs ==
    UNION {[1..k -> {PureTask(id, st, "medium", used) :
                        id \in 1..MaxDocLen, st \in PickStatuses, used \in BOOLEAN}] :
               k \in 0..MaxDocLen}

\* the keyword arguments main() and wait_for_approval() pass to update_task
UpdateKwargs ==
    {[status |-> "in_progress"],
     [status |-> "plan_review", plan |-> <<"plan">>],
     [status |-> "failed", summary |-> MSG_PLAN_TIMEOUT],
     [status |-> "decomposed"],
     [status |-> "done", completed_at |-> NowStr, summary |-> <<"out">>]}

InitPure ==
    /\ store = <<>>
    /\ today = 1
    /\ pc = "none"
    /\ dtask = NoTask
    /\ dupd = NoUpd
    /\ ddata = <<>>
    /\ dout = NoOut
    /\ reqs = [s \in 1..Slots |-> Idle]
    /\ nops = 0
    /\ hist = InitHist
    /\ \/ \E l \in PickInputs : pin = [kind |-> "pick", tasks |-> l] /\ file = "json"
       \/ \E l \in DocInputs : pin = [kind |-> "doc", tasks |-> l] /\ file = "json"
       \/ \E l \in DocInputs : pin = [kind |-> "file", tasks |-> l] /\ file = "json"
       \/ \E f \in {"missing", "malformed"} : pin = [kind |-> "file", tasks |-> <<>>] /\ file = f
       \/ \E l \in UpdateInputs : pin = [kind |-> "update", tasks |-> l] /\ file = "json"
       \/ \E l \in CountInputs : pin = [kind |-> "count", tasks |-> l] /\ file = "json"
    /\ pout = NoResult

ApplyPick ==
    /\ pin.kind = "pick"
    /\ pout = NoResult
    /\ pout' = [NoResult EXCEPT !.fn = "pick_next_task", !.res = pick_next_task(pin.tasks)]
    /\ UNCHANGED <<store, today, dvars, reqs, nops, hist, pin, file>>

\* a route handler on the document it loaded; add_task only past its blank-prompt return
ApplyHandler(op, task_id, arg) ==
    /\ pin.kind = "doc"
    /\ pout = NoResult
    /\ op = "add" => Strip(arg.prompt) # <<>>
    /\ pout' = [fn |-> op, id |-> task_id, arg |-> arg,
                res |-> Handler(op, pin.tasks, task_id, arg)]
    /\ UNCHANGED <<store, today, dvars, reqs, nops, hist, pin, file>>

\* load_tasks on a file in each of its states
ApplyLoad ==
    /\ pin.kind = "file"
    /\ pout = NoResult
    /\ pout' = [NoResult EXCEPT !.fn = "load_tasks", !.res = load_tasks(file, pin.tasks)]
    /\ UNCHANGED <<store, today, dvars, reqs, nops, hist, pin, file>>

\* update_task on the list it loaded
ApplyUpdate(task_id, kwargs) ==
    /\ pin.kind = "update"
    /\ pout = NoResult
    /\ pout' = [fn |-> "update_task", id |-> task_id, arg |-> kwargs,
                res |-> update_task(pin.tasks, task_id, kwargs)]
    /\ UNCHANGED <<store, today, dvars, reqs, nops, hist, pin, file>>

ApplyCount ==
    /\ pin.kind = "count"
    /\ pout = NoResult
    /\ pout' = [NoResult EXCEPT !.fn = "tasks_completed_today",
                                !.res = tasks_completed_today(pin.tasks)]
    /\ UNCHANGED <<store, today, dvars, reqs, nops, hist, pin, file>>

NextPure ==
    \/ ApplyPick
    \/ ApplyCount
    \/ ApplyLoad
    \/ \E task_id \in 1..(MaxDocLen + 1), kwargs \in UpdateKwargs : ApplyUpdate(task_id, kwargs)
    \/ \E op \in Ops : \E task_id \in IdsOf(op, 1..(MaxDocLen + 1)), arg \in ArgsOf(op) :
           ApplyHandler(op, task_id, arg)

SpecPure == InitPure /\ [][NextPure]_vars

\* ------------------------------------------------------------------ claims
InProgress(tasks) == {i \in 1..Len(tasks) : tasks[i].status = "in_progress"}

\* C1: the loop is in its execute phase only if, since the plan of this cycle was
\* stored, an approve request for the task saved a change of plan_review to approved
C1_ExecuteOnlyAfterApprove ==
    pc \in {"exec_cc", "detect", "commit"} => hist.appr

\* C2: at most one task of the store is in_progress
C2_OneInProgress == Cardinality(InProgress(store)) <= 1

\* the edges C3 lists
C3_Edges ==
    {<<"pending", "in_progress">>,
     <<"in_progress", "plan_review">>, <<"in_progress", "failed">>,
     <<"in_progress", "decomposed">>, <<"in_progress", "done">>,
     <<"plan_review", "approved">>, <<"plan_review", "rejected">>,
     <<"plan_review", "failed">>,
     <<"approved", "in_progress">>, <<"approved", "failed">>,
     <<"push_review", "pushed">>, <<"push_review", "done">>,
     <<"failed", "pending">>, <<"rejected", "pending">>, <<"done", "pending">>}

\* C3: every change of a stored task's status is one of the listed edges
C3_OnlyEdges ==
    [][\A i \in 1..Len(store), j \in 1..Len(store') :
           (store[i].id = store'[j].id /\ store[i].status # store'[j].status)
               => <<store[i].status, store'[j].status>> \in C3_Edges]_vars

\* C4: a write of the loop leaves the status of its task as it is when the stored
\* status is done, failed, decomposed or pushed
C4_TerminalStays ==
    [][(pc = "update_save" /\ pc' # pc
            /\ StatusOf(store, dtask.id) \in {"done", "failed", "decomposed", "pushed"})
           => StatusOf(store', dtask.id) = StatusOf(store, dtask.id)]_vars

\* C5: after a cycle whose approval timed out, with no request of the control surface
\* at all, the task is failed with the summary "Plan approval timed out"
C5_TimeoutSummary ==
    (pc = "top" /\ hist.last = "approval_timeout" /\ nops = 0)
        => /\ StatusOf(store, dtask.id) = "failed"
           /\ store[Find(store, dtask.id)].summary = <<"Plan approval timed out">>

\* C6: pick_next returns the pending task least under (rank, id), with rank high=0,
\* medium=1, low=2 and 1 for any other or absent priority; none exactly when no task is
\* pending; and the same task for every order of the list
C6_Rank(t) == CASE t.priority = "high" -> 0 [] t.priority = "low" -> 2 [] OTHER -> 1

C6_Pending == {i \in 1..Len(pin.tasks) : pin.tasks[i].status = "pending"}

C6_Orders ==
    LET n == Len(pin.tasks)
    IN  {[i \in 1..n |-> pin.tasks[f[i]]] :
             f \in {g \in [1..n -> 1..n] : \A i, j \in 1..n : g[i] = g[j] => i = j}}

C6_PickNext ==
    pout.fn = "pick_next_task" =>
        /\ (C6_Pending = {}) <=> (pout.res = NoTask)
        /\ C6_Pending # {} =>
               \E i \in C6_Pending :
                   /\ pout.res = pin.tasks[i]
                   /\ \A j \in C6_Pending :
                          \/ C6_Rank(pin.tasks[i]) < C6_Rank(pin.tasks[j])
                          \/ /\ C6_Rank(pin.tasks[i]) = C6_Rank(pin.tasks[j])
                             /\ pin.tasks[i].id <= pin.tasks[j].id
        /\ \A l \in C6_Orders : pick_next_task(l) = pout.res

C6_Witness ==
    /\ pout.fn = "pick_next_task"
    /\ Len(pin.tasks) = MaxLen
    /\ Cardinality(C6_Pending) >= 2
    /\ pout.res = pin.tasks[MaxLen]
    /\ pout.res.priority = Absent
    /\ \E i \in C6_Pending : pin.tasks[i].priority = "low" /\ pin.tasks[i].id < pout.res.id

\* C7: from a list with completed_today >= daily_limit the loop's step at the top is
\* the backoff: it stays at the top, claims nothing and writes nothing
C7_CapBacksOff ==
    [][(pc = "top" /\ tasks_completed_today(store) >= DAILY_LIMIT)
           => (pc' = "top" /\ dupd' = dupd /\ (DispTop => store' = store))]_vars

C7_Witness ==
    /\ pc = "top"
    /\ hist.last = "backoff"
    /\ tasks_completed_today(store) >= DAILY_LIMIT
    /\ \E i \in 1..Len(store) : store[i].status = "pending"

\* C8: the loop stores at most daily_limit tasks as done with a timestamp of one day
C8_DailyCap == \A d \in 1..MaxDay : hist.done[d] <= DAILY_LIMIT

\* the status-changing routes and the statuses each requires of its task
C9_Source(op) ==
    CASE op = "approve"      -> {"plan_review"}
      [] op = "reject"       -> {"plan_review"}
      [] op = "cancel"       -> {"in_progress", "plan_review", "approved"}
      [] op = "retry"        -> {"failed", "rejected", "done"}
      [] op = "approve_push" -> {"push_review"}
      [] op = "reject_push"  -> {"push_review"}

C9_StatusOps == {"approve", "reject", "cancel", "retry", "approve_push", "reject_push"}

\* C9: a status-changing call for an id that is absent, or whose task is not in the
\* call's source states, saves the document it loaded
C9_NoOp ==
    (pout.fn \in C9_StatusOps /\ StatusOf(pin.tasks, pout.id) \notin C9_Source(pout.fn))
        => pout.res = pin.tasks

C9_Witness ==
    /\ pout.fn = "cancel"
    /\ Len(pin.tasks) = MaxDocLen
    /\ StatusOf(pin.tasks, pout.id) = "done"
    /\ pout.res = pin.tasks

\* C10: retry of a failed, rejected or done task makes it pending with completed_at,
\* summary and plan None and changes nothing else; retry of any other task, or of an
\* absent id, changes nothing
C10_Retry ==
    pout.fn = "retry" =>
        LET i == Find(pin.tasks, pout.id)
        IN  IF i # 0 /\ pin.tasks[i].status \in {"failed", "rejected", "done"}
            THEN /\ Len(pout.res) = Len(pin.tasks)
                 /\ \A j \in 1..Len(pin.tasks) : j # i => pout.res[j] = pin.tasks[j]
                 /\ pout.res[i] = [pin.tasks[i] EXCEPT !.status = "pending",
                        !.completed_at = None, !.summary = None, !.plan = None]
            ELSE pout.res = pin.tasks

C10_Witness ==
    /\ pout.fn = "retry"
    /\ Len(pin.tasks) = MaxDocLen
    /\ StatusOf(pin.tasks, pout.id) = "done"
    /\ pin.tasks[Find(pin.tasks, pout.id)].plan # None
    /\ StatusOf(pout.res, pout.id) = "pending"
    /\ pout.res[Find(pin.tasks, pout.id)].plan = None

\* C11: a poll of the gate that follows an earlier poll and finds the task approved
\* returns True (the loop goes on to its in_progress write and the execute phase) and
\* leaves the store as it is
C11_ApprovedBetweenPolls ==
    [][(pc = "gate" /\ StatusOf(store, dtask.id) = "approved" /\ GatePoll)
           => /\ store' = store
              /\ pc' = "update_load"
              /\ dupd' = [kw |-> [status |-> "in_progress"], ret |-> "exec_cc"]]_vars

C11_Witness ==
    /\ hist.last = "approved"
    /\ pc = "update_load"
    /\ dupd.ret = "exec_cc"
    /\ StatusOf(store, dtask.id) = "approved"
    /\ store[Find(store, dtask.id)].plan # None

\* C12: the write of the gate at its deadline, for a task it loaded in plan_review,
\* stores the task as failed with the summary "Plan approval timed out", and the gate
\* then returns False
C12_DeadlineWrite ==
    [][(pc = "update_save" /\ pc' # pc /\ dupd.ret = "not_approved"
            /\ StatusOf(ddata, dtask.id) = "plan_review")
           => /\ pc' = "not_approved"
              /\ StatusOf(store', dtask.id) = "failed"
              /\ store'[Find(store', dtask.id)].summary = <<"Plan approval timed out">>]_vars

C12_Witness ==
    /\ pc = "not_approved"
    /\ hist.last = "approval_timeout"
    /\ nops = 0
    /\ StatusOf(store, dtask.id) = "failed"
    /\ store[Find(store, dtask.id)].summary = <<"Plan approval timed out">>

\* C13: once a poll of the gate has found the task deleted, no write of the loop in
\* that cycle stores a task with that id into a store that holds none
C13_DeletedStaysDeleted ==
    [][(pc = "update_save" /\ pc' # pc /\ hist.last = "missing"
            /\ Find(store, dtask.id) = 0)
           => Find(store', dtask.id) = 0]_vars

C15_DoneOnlyOnSuccess ==
    (pc = "commit" /\ StatusOf(store, dtask.id) = "done") => dout.rc = 0

\* the cycles that ended with a timeout of the gateway, and the summary of each phase
C16_Timeouts == {"plan_timeout", "exec_timeout"}

C16_Summary(last) ==
    IF last = "plan_timeout" THEN <<"Plan step timed out">> ELSE <<"Execution timed out">>

\* from the timeout to the next iteration the loop does nothing but the one write of
\* failed with the summary of the phase, and then is at the top of the loop
C16_CycleEnds ==
    hist'.last \in C16_Timeouts =>
        /\ pc' \in {"update_load", "update_save", "top"}
        /\ pc' # "top" =>
               dupd' = [kw |-> [status |-> "failed", summary |-> C16_Summary(hist'.last)],
                        ret |-> "top"]

C16_Write(present) ==
    (pc = "update_save" /\ pc' # pc /\ hist.last \in C16_Timeouts /\ present) =>
        /\ pc' = "top"
        /\ StatusOf(store', dtask.id) = "failed"
        /\ store'[Find(store', dtask.id)].summary = C16_Summary(hist.last)

\* C16: whenever the gateway times out the task is stored as failed with the summary
\* of the phase, the cycle ends without gate or finalization, and the loop is at its
\* next iteration
C16_TimeoutStored == [][C16_CycleEnds /\ C16_Write(TRUE)]_vars

\* C16, amended: the same, for a task that update_task finds in the document it loads
C16_TimeoutStoredIfPresent ==
    [][C16_CycleEnds /\ C16_Write(Find(ddata, dtask.id) # 0)]_vars

C16_Witness ==
    /\ pc = "top"
    /\ hist.last = "exec_timeout"
    /\ StatusOf(store, dtask.id) = "failed"
    /\ store[Find(store, dtask.id)].summary = <<"Execution timed out">>

\* C17: delete of a task that is not in_progress saves the document without that task
\* and with the others as they were; delete of an in_progress task, or of an absent
\* id, saves the document it loaded
C17_Delete ==
    pout.fn = "delete" =>
        LET i == Find(pin.tasks, pout.id)
        IN  IF i # 0 /\ pin.tasks[i].status # "in_progress"
            THEN pout.res = [j \in 1..(Len(pin.tasks) - 1) |->
                                IF j < i THEN pin.tasks[j] ELSE pin.tasks[j + 1]]
            ELSE pout.res = pin.tasks

C17_Witness ==
    /\ pout.fn = "delete"
    /\ Len(pin.tasks) = MaxDocLen
    /\ StatusOf(pin.tasks, pout.id) = "in_progress"
    /\ pout.res = pin.tasks

\* C18: edit of a pending, failed or rejected task sets its priority and changes at
\* most its prompt besides; edit of a task in any other status, or of an absent id,
\* saves the document it loaded
C18_Edit ==
    pout.fn = "edit" =>
        LET i == Find(pin.tasks, pout.id)
        IN  IF i # 0 /\ pin.tasks[i].status \in {"pending", "failed", "rejected"}
            THEN /\ Len(pout.res) = Len(pin.tasks)
                 /\ \A j \in 1..Len(pin.tasks) : j # i => pout.res[j] = pin.tasks[j]
                 /\ pout.res[i].priority = pout.arg.priority
                 /\ [pout.res[i] EXCEPT !.prompt = pin.tasks[i].prompt,
                                        !.priority = pin.tasks[i].priority] = pin.tasks[i]
            ELSE pout.res = pin.tasks

C18_Witness ==
    /\ pout.fn = "edit"
    /\ Len(pin.tasks) = MaxDocLen
    /\ StatusOf(pin.tasks, pout.id) = "plan_review"
    /\ pout.arg.priority # pin.tasks[Find(pin.tasks, pout.id)].priority
    /\ Strip(pout.arg.prompt) # <<>>
    /\ pout.res = pin.tasks

\* C19: no two tasks of the store have the same id, and every id is a positive integer
C19_UniqueIds ==
    /\ \A i, j \in 1..Len(store) : store[i].id = store[j].id => i = j
    /\ \A i \in 1..Len(store) : store[i].id \in Nat \ {0}

C19_Witness ==
    /\ nops = MaxOps
    /\ Len(store) = 2
    /\ Find(store, 1) = 0
    /\ Find(store, 3) # 0
    /\ Find(store, 2) # 0
    /\ \A s \in DOMAIN reqs : reqs[s] = Idle

\* C20: the task that an add request saves has the id max(ids it loaded) + 1, and no
\* earlier task, deleted ones included, was given that id
C20_NoIdReuse ==
    [][\A s \in DOMAIN reqs :
           (reqs[s].op = "add" /\ reqs'[s] = Idle)
               => /\ store'[Len(store')].id = MaxIdOf(reqs[s].data) + 1
                  /\ store'[Len(store')].id \notin hist.used]_vars

\* C21: load_tasks raises nothing, and returns the empty list for a file that does
\* not exist and for a file whose text is malformed
C21_LoadNeverRaises ==
    pout.fn = "load_tasks" =>
        /\ ~pout.res.raised
        /\ file \in {"missing", "malformed"} => pout.res.tasks = <<>>

\* C22: every load of the loop and of a request finds tasks.json whole: it reads the
\* document as it was before a save or as it is after it
C22_WholeLoads ==
    [][((pc \in FileLoads /\ pc' # pc) \/ nops' # nops)
           => ~load_tasks(file, store).raised]_vars

\* C23: a save writes the whole document its writer loaded: after a save of the loop
\* every task but the loop's own is as the loop loaded it, and after a save of a
\* request every task it loaded, but the one of its id, is as the request loaded it;
\* what another writer saved in between is no longer in the store
C23_LaterSaveWins ==
    [][/\ (pc = "update_save" /\ pc' # pc)
           => /\ Len(store') = Len(ddata)
              /\ \A j \in 1..Len(ddata) : ddata[j].id # dtask.id => store'[j] = ddata[j]
       /\ \A s \in DOMAIN reqs :
              (reqs[s] # Idle /\ reqs'[s] = Idle)
                  => \A j \in 1..Len(reqs[s].data) :
                         reqs[s].data[j].id # reqs[s].id
                             => \E k \in 1..Len(store') : store'[k] = reqs[s].data[j]]_vars

\* the loop stored in_progress for its task while a request held the document, and the
\* request's save has put the task back to pending
C23_Witness ==
    /\ pc = "plan_cc"
    /\ hist.last = "claimed"
    /\ nops = 1
    /\ \A s \in DOMAIN reqs : reqs[s] = Idle
    /\ StatusOf(store, dtask.id) = "pending"

\* the tasks of the input list with the id update_task was called for
C24_Matches == {i \in 1..Len(pin.tasks) : pin.tasks[i].id = pout.id}

C26_ReturnsToTop == (pc # "top") ~> (pc = "top")

\* the tasks of the input list that are done with a completed_at of the current day
C27_Counted ==
    {i \in 1..Len(pin.tasks) :
        /\ pin.tasks[i].status = "done"
        /\ "completed_at" \in DOMAIN pin.tasks[i]
        /\ pin.tasks[i].completed_at # None
        /\ pin.tasks[i].completed_at[1] = Days[today]}

\* C27: tasks_completed_today is the number of done tasks whose completed_at starts
\* with the current date; no other status, other date, None or absent completed_at counts
C27_CompletedToday ==
    pout.fn = "tasks_completed_today" => pout.res = Cardinality(C27_Counted)

C27_Witness ==
    /\ pout.fn = "tasks_completed_today"
    /\ Len(pin.tasks) = MaxLen
    /\ pout.res = 1
    /\ pin.tasks[1].status = "done" /\ "completed_at" \notin DOMAIN pin.tasks[1]
    /\ pin.tasks[2].status = "done"
    /\ Get(pin.tasks[2], "completed_at") = <<Days[2], "T00:00:00">>
    /\ pin.tasks[3].status = "done"
    /\ Get(pin.tasks[3], "completed_at") = <<Days[1], "T00:00:00">>

\* C28: a write of the loop leaves a task whose stored status is rejected in that status
C28_RejectedStays ==
    [][(pc = "update_save" /\ pc' # pc /\ StatusOf(store, dtask.id) = "rejected")
           => StatusOf(store', dtask.id) = "rejected"]_vars

\* C29: in a cycle whose plan was rejected, a write of the loop leaves a stored summary
\* "Rejected: <feedback>" of its task as it is
C29_RejectionSummaryStays ==
    [][(/\ pc = "update_save" /\ pc' # pc
        /\ hist.last = "rejected"
        /\ Find(store, dtask.id) # 0
        /\ StartsWith(store[Find(store, dtask.id)].summary, <<"Rejected: ">>))
           => /\ Find(store', dtask.id) # 0
              /\ store'[Find(store', dtask.id)].summary
                     = store[Find(store, dtask.id)].summary]_vars

\* the commit and the log entry come once per done path and on no other path: the log
\* changes only by the one entry the loop appends from "commit", the loop leaves
\* "commit" only by that step, and it comes to "commit" only from its write of done
C30_OncePerDone(stored) ==
    /\ hist'.log # hist.log
           => pc = "commit" /\ hist.last = "done" /\ hist'.log = Append(hist.log, dtask.id)
    /\ (pc = "commit" /\ pc' # pc) => pc' = "top" /\ hist'.log = Append(hist.log, dtask.id)
    /\ (pc' = "commit" /\ pc # pc')
           => /\ pc = "update_save" /\ dupd.kw.status = "done"
              /\ stored => StatusOf(store', dtask.id) = "done"

\* C30: the commit and the progress entry happen exactly once for each cycle finalized
\* as done, after done has been stored, and for no other cycle; the log only grows
C30_CommitAfterDoneStored == [][C30_OncePerDone(TRUE)]_vars

\* C30, amended: the same, where done has been stored for a task that was still in the
\* document the write of done loaded
C30_CommitAfterDoneWrite == [][C30_OncePerDone(Find(ddata, dtask.id) # 0)]_vars

C30_Witness ==
    /\ pc = "top"
    /\ hist.log = <<dtask.id>>
    /\ StatusOf(store, dtask.id) = "done"
    /\ \E i \in 1..Len(store) : store[i].status = "failed"

\* C31: the write of the gate at its deadline leaves a task alone that it loaded, and
\* that is stored, as approved or as pending: only plan_review becomes failed
C31_DeadlineOnlyFromPlanReview ==
    [][(/\ pc = "update_save" /\ pc' # pc /\ dupd.ret = "not_approved"
        /\ StatusOf(store, dtask.id) \in {"approved", "pending"}
        /\ StatusOf(ddata, dtask.id) = StatusOf(store, dtask.id))
           => StatusOf(store', dtask.id) = StatusOf(store, dtask.id)]_vars

\* C32: every stored task has a prompt that is not empty; a POST /tasks with a blank
\* prompt leaves the store as it is; and an edit with a blank prompt saves its task
\* with the prompt the request loaded
C32_PromptsNotEmpty ==
    [][/\ \A i \in 1..Len(store') : store'[i].prompt # <<>>
       /\ (nops' # nops /\ reqs' = reqs) => store' = store
       /\ \A s \in DOMAIN reqs :
              (/\ reqs[s].op = "edit" /\ reqs'[s] = Idle
               /\ Strip(reqs[s].arg.prompt) = <<>>
               /\ Find(reqs[s].data, reqs[s].id) # 0)
                  => /\ Find(store', reqs[s].id) # 0
                     /\ store'[Find(store', reqs[s].id)].prompt
                            = reqs[s].data[Find(reqs[s].data, reqs[s].id)].prompt]_vars

\* task 1 was medium with prompt "a": an edit has set its priority, and its prompt is
\* still "a", which no edit with a prompt that is not blank leaves behind
C32_Witness ==
    /\ nops = MaxOps
    /\ \A s \in DOMAIN reqs : reqs[s] = Idle
    /\ Len(store) = 2
    /\ store[1].id = 1 /\ store[1].priority = "high" /\ store[1].prompt = <<"a">>
    /\ store[1].status = "pending"

\* C33: the save of a status-changing request that loaded its task outside the
\* route's source states (or loaded no task of its id) leaves the task of the loop as
\* the store holds it, whatever the loop wrote since the request's load
C33_NoOpKeepsLoopWrite ==
    [][\A s \in DOMAIN reqs :
           (/\ reqs[s].op \in C9_StatusOps /\ reqs'[s] = Idle
            /\ StatusOf(reqs[s].data, reqs[s].id) \notin C9_Source(reqs[s].op)
            /\ Find(store, dtask.id) # 0)
               => /\ Find(store', dtask.id) # 0
                  /\ store'[Find(store', dtask.id)] = store[Find(store, dtask.id)]]_vars

C35_PlanOnlyForStoredTask ==
    [][(pc' = "plan_cc" /\ pc # "plan_cc") => StatusOf(store', dtask.id) = "in_progress"]_vars

\* the pending tasks of the store that no other pending task precedes under (rank, id)
C36_Least ==
    {store[i].id : i \in {k \in 1..Len(store) :
        /\ store[k].status = "pending"
        /\ \A j \in 1..Len(store) : store[j].status = "pending" => ~KeyLess(store[j], store[k])}}

C36_Claimed(id) ==
    (StatusOf(store, id) = "pending") ~> (StatusOf(store, id) = "in_progress")

\* C36: in a behaviour in which the daily cap is never reached, every task that is
\* pending is eventually stored as in_progress; and each time the loop takes a task at
\* the top of its loop, it is the pending task least under (rank, id)
C36_PendingClaimedInOrder ==
    /\ [](tasks_completed_today(store) < DAILY_LIMIT) => \A id \in 1..MaxId : C36_Claimed(id)
    /\ [][(pc = "top" /\ pc' = "update_load") => dtask'.id \in C36_Least]_vars

====
